---- MODULE Spec2Model ----
(***************************************************************************)
(* Model of the Veo Storyteller single-page application.                   *)
(*                                                                         *)
(*   src/App.tsx                   the App component: view state, handlers *)
(*   src/services/geminiService.ts the three request wrappers              *)
(*   src/unnamed/part_001          the StoryState / VideoState / AudioState*)
(*                                 records and the AspectRatio enum        *)
(*                                                                         *)
(* A step of the model is one macrotask of the browser's event loop: a     *)
(* user event handler, a timer callback, or the settling of an awaited     *)
(* promise together with the synchronous continuation that follows it.     *)
(* React applies the state updates queued in one such task in order, so    *)
(* the setState calls of a task are composed sequentially.                 *)
(***************************************************************************)
EXTENDS Integers, Sequences, FiniteSets, TLC

(* ------------------------------ bounds --------------------------------- *)
\* user events (clicks and file selections) over a run
MaxEvents == 4
\* getVideosOperation polls one generation needs before the remote job is done
MaxPolls == 2

(* ------------------------------ values --------------------------------- *)
\* null of a `string | null` or `AudioBuffer | null` field (strings the program
\* builds are kept as non-empty token sequences)
NULL == <<>>
\* undefined of a value the model keeps as a plain string
Undefined == "undefined"
\* null of selectedFile
NoFile == [type |-> "", b64 |-> <<>>]
\* null of audioSourceRef.current (sources are numbered from 1)
NoSource == 0

\* the files a user can pick; b64 is the base64 text of the file's bytes
Files ==
  { [type |-> "image/png",  b64 |-> <<"iVBORw0K">>],
    [type |-> "image/jpeg", b64 |-> <<"/9j/4AAQ">>] }

\* AspectRatio enum
LANDSCAPE == "16:9"
PORTRAIT == "9:16"
AspectRatios == {LANDSCAPE, PORTRAIT}

\* FileReader.readAsDataURL: "data:<type>;base64,<b64>" as a token sequence
ReadAsDataURL(file) == <<"data:", file.type, ";base64", ",">> \o file.b64

\* String.prototype.split(","): the pieces between the separators
RECURSIVE SplitComma(_)
SplitComma(s) ==
  IF \A i \in 1..Len(s) : s[i] # ","
    THEN <<s>>
    ELSE LET k == CHOOSE i \in 1..Len(s) :
                    s[i] = "," /\ \A j \in 1..(i-1) : s[j] # ","
         IN  <<SubSeq(s, 1, k-1)>> \o SplitComma(SubSeq(s, k+1, Len(s)))

\* a slip: the data URL is passed on with its header
StripHeaderKeepsHeader(dataUrl) == dataUrl

\* base64Image.split(',')[1]
StripHeader(dataUrl) == SplitComma(dataUrl)[2]

\* string concatenation a + b, kept as the pair of its parts
Concat(a, b) == <<a, b>>

\* err.message || ""
MessageOr(msg) == IF msg = Undefined THEN "" ELSE msg

\* remove element i of a sequence
RemoveAt(s, i) == SubSeq(s, 1, i-1) \o SubSeq(s, i+1, Len(s))

(* --------------------------- remote replies ---------------------------- *)
\* response.text of the story model: empty or a paragraph
StoryTexts == {"", "Rain beaded on the lanterns..."}
\* the sentence generateStory returns when response.text is empty
FallbackStory == "The mists of silence covered the land..."
\* message of an Error a remote call rejects with
RemoteFailure == "fetch failed"
\* generatedVideos[0].video.uri of a done operation: missing, empty or a link
VideoUris == {Undefined, "", "https://video/1"}

(* ------------------------------- state --------------------------------- *)
VARIABLES
  apiKeyReady,     \* useState(false)
  selectedFile,    \* useState<File | null>(null)
  imagePreview,    \* useState<string | null>(null)
  story,           \* StoryState
  video,           \* VideoState
  audio,           \* AudioState
  aspectRatio,     \* useState(AspectRatio.LANDSCAPE)
  audioSourceRef,  \* useRef<AudioBufferSourceNode | null>(null): index into sources
  hasKey,          \* environment: what aistudio.hasSelectedApiKey() answers
  mountCheck,      \* the checkApiKey() of the mount effect: "pending" | "settled"
  keyFlows,        \* running handleApiKeySelect calls
  readers,         \* FileReaders whose onloadend has not fired yet
  storyReqs,       \* generateStory calls in flight
  videoTasks,      \* every handleGenerateVideo run that reached generateVeoVideo
  speechReqs,      \* generateSpeech calls in flight
  sources,         \* every AudioBufferSourceNode started: "playing" | "stopped" | "ended"
  nEvents          \* user events so far

vars == <<apiKeyReady, selectedFile, imagePreview, story, video, audio, aspectRatio,
          audioSourceRef, hasKey, mountCheck, keyFlows, readers, storyReqs,
          videoTasks, speechReqs, sources, nEvents>>

keyVars == <<apiKeyReady, hasKey, mountCheck, keyFlows>>
fileVars == <<selectedFile, imagePreview, readers>>
storyVars == <<story, storyReqs>>
audioVars == <<audio, audioSourceRef, speechReqs, sources>>

StoryInit == [text |-> "", isGenerating |-> FALSE, error |-> NULL]
VideoInit == [url |-> NULL, isGenerating |-> FALSE, progressMessage |-> "", error |-> NULL]
AudioInit == [isPlaying |-> FALSE, isGenerating |-> FALSE, audioBuffer |-> NULL]

Init ==
  /\ apiKeyReady = FALSE
  /\ selectedFile = NoFile
  /\ imagePreview = NULL
  /\ story = StoryInit
  /\ video = VideoInit
  /\ audio = AudioInit
  /\ aspectRatio = LANDSCAPE
  /\ audioSourceRef = NoSource
  /\ hasKey \in BOOLEAN
  /\ mountCheck = "pending"
  /\ keyFlows = <<>>
  /\ readers = <<>>
  /\ storyReqs = <<>>
  /\ videoTasks = <<>>
  /\ speechReqs = <<>>
  /\ sources = <<>>
  /\ nEvents = 0

(* ------------------------------ rendering ------------------------------ *)
\* the main screen (file input, buttons) is rendered only past the key gate
MainScreen == apiKeyReady

\* the "Generate Veo Video" button
GenerateButtonRendered ==
  MainScreen /\ imagePreview # NULL /\ ~video.isGenerating /\ video.url = NULL

\* the Read Aloud / Stop button is rendered and not disabled
ReadAloudEnabled ==
  MainScreen /\ ~(story.isGenerating \/ story.text = "" \/ audio.isGenerating)

\* one more click or file selection of the user
UserEvent == nEvents < MaxEvents /\ nEvents' = nEvents + 1

(* ------------------------------ API key -------------------------------- *)
\* useEffect(() => { checkApiKey().then(setApiKeyReady) }, []); a rejected
\* checkApiKey leaves the state alone
MountCheckSettles ==
  /\ mountCheck = "pending"
  /\ mountCheck' = "settled"
  /\ \E ok \in BOOLEAN :
       apiKeyReady' = IF ok THEN hasKey ELSE apiKeyReady
  /\ UNCHANGED <<hasKey, keyFlows, fileVars, storyVars, video, videoTasks,
                 aspectRatio, audioVars, nEvents>>

\* handleApiKeySelect up to its first await; caller is "connect" (the button of
\* the key screen) or "video" (handleGenerateVideo, with what its closure holds)
StartKeyFlow(caller, img, file, ratio) ==
  keyFlows' = Append(keyFlows, [pc |-> "prompt", caller |-> caller,
                                img |-> img, file |-> file, ratio |-> ratio])

\* the Connect Account button
ClickConnect ==
  /\ ~MainScreen
  /\ UserEvent
  /\ StartKeyFlow("connect", NULL, NoFile, Undefined)
  /\ UNCHANGED <<apiKeyReady, hasKey, mountCheck, fileVars, storyVars, video,
                 videoTasks, aspectRatio, audioVars>>

\* await promptApiKeySelection(): the user picks a key or closes the dialog;
\* a rejection lands in the catch of handleApiKeySelect
PromptSettles(k) ==
  /\ k \in 1..Len(keyFlows)
  /\ keyFlows[k].pc = "prompt"
  /\ \E picked \in BOOLEAN, ok \in BOOLEAN :
       /\ hasKey' = (hasKey \/ picked)
       /\ keyFlows' = IF ok THEN [keyFlows EXCEPT ![k].pc = "check"]
                      ELSE IF keyFlows[k].caller = "video"
                        THEN [keyFlows EXCEPT ![k].pc = "recheck"]
                        ELSE RemoveAt(keyFlows, k)
  /\ UNCHANGED <<apiKeyReady, mountCheck, fileVars, storyVars, video,
                 videoTasks, aspectRatio, audioVars, nEvents>>

\* const ready = await checkApiKey(); setApiKeyReady(ready), or the catch
CheckSettles(k) ==
  /\ k \in 1..Len(keyFlows)
  /\ keyFlows[k].pc = "check"
  /\ \E ok \in BOOLEAN :
       apiKeyReady' = IF ok THEN hasKey ELSE apiKeyReady
  /\ keyFlows' = IF keyFlows[k].caller = "video"
                   THEN [keyFlows EXCEPT ![k].pc = "recheck"]
                   ELSE RemoveAt(keyFlows, k)
  /\ UNCHANGED <<hasKey, mountCheck, fileVars, storyVars, video,
                 videoTasks, aspectRatio, audioVars, nEvents>>

\* the 16:9 / 9:16 toggle
SetAspectRatio(r) ==
  /\ MainScreen
  /\ UserEvent
  /\ r \in AspectRatios
  /\ aspectRatio' = r
  /\ UNCHANGED <<keyVars, fileVars, storyVars, video, videoTasks, audioVars>>

(* ------------------------------- audio --------------------------------- *)
\* audioSourceRef.current.stop() inside stopAudio: stopping a source that has
\* already stopped or ended changes nothing
StopHeld(srcs, ref) ==
  IF ref # NoSource /\ srcs[ref] = "playing" THEN [srcs EXCEPT ![ref] = "stopped"] ELSE srcs

\* the audio state stopAudio leaves
StoppedAudio(prev) == [prev EXCEPT !.isPlaying = FALSE]

\* stopAudio
StopAudio ==
  /\ sources' = StopHeld(sources, audioSourceRef)
  /\ audioSourceRef' = NoSource
  /\ audio' = StoppedAudio(audio)

\* playBuffer, applied to the audio state `cur` left by the updates queued so far
PlayBuffer(cur) ==
  /\ sources' = Append(sources, "playing")
  /\ audioSourceRef' = Len(sources) + 1
  /\ audio' = [cur EXCEPT !.isPlaying = TRUE]

(* --------------------------- upload and story -------------------------- *)
\* handleFileChange: the user picks a file in the file input
SelectFile(f) ==
  /\ MainScreen
  /\ UserEvent
  /\ f \in Files
  /\ selectedFile' = f
  /\ readers' = Append(readers, f)
  /\ UNCHANGED <<imagePreview, keyVars, storyVars, video, videoTasks, aspectRatio,
                 audioVars>>

\* handleGenerateStory up to its await: the request it issues
StoryRequest(base64Image, mimeType) ==
  [data |-> StripHeader(base64Image), mime |-> mimeType]

\* the story state after the reset and the updater of handleGenerateStory
StoryStarted == [StoryInit EXCEPT !.isGenerating = TRUE, !.error = NULL]

\* a slip: the upload also starts a video generation
ReaderLoadEndStartsVideo(i) ==
  /\ i \in 1..Len(readers)
  /\ LET file == readers[i]
         result == ReadAsDataURL(file)
     IN  /\ imagePreview' = result
         /\ story' = StoryStarted
         /\ video' = [url |-> NULL, isGenerating |-> TRUE,
                      progressMessage |-> "Initializing Veo...", error |-> NULL]
         /\ videoTasks' = Append(videoTasks,
              [pc |-> "generateVideos", data |-> StripHeader(result),
               mime |-> file.type, ratio |-> aspectRatio, timer |-> "active",
               polls |-> 0, trace |-> <<"generateVideos">>, thrown |-> Undefined])
         /\ sources' = StopHeld(sources, audioSourceRef)
         /\ audioSourceRef' = NoSource
         /\ audio' = AudioInit
         /\ storyReqs' = Append(storyReqs, StoryRequest(result, file.type))
  /\ readers' = RemoveAt(readers, i)
  /\ UNCHANGED <<selectedFile, keyVars, aspectRatio, speechReqs, nEvents>>

\* a slip: the upload resets the audio state without calling stopAudio
ReaderLoadEndNoStop(i) ==
  /\ i \in 1..Len(readers)
  /\ LET file == readers[i]
         result == ReadAsDataURL(file)
     IN  /\ imagePreview' = result
         /\ story' = StoryStarted
         /\ video' = VideoInit
         /\ audio' = AudioInit
         /\ storyReqs' = Append(storyReqs, StoryRequest(result, file.type))
  /\ readers' = RemoveAt(readers, i)
  /\ UNCHANGED <<selectedFile, keyVars, videoTasks, aspectRatio, speechReqs,
                 sources, audioSourceRef, nEvents>>

\* reader.onloadend of the i-th pending reader, with handleGenerateStory run
\* up to its await
ReaderLoadEnd(i) ==
  /\ i \in 1..Len(readers)
  /\ LET file == readers[i]
         result == ReadAsDataURL(file)
     IN  /\ imagePreview' = result
         /\ story' = StoryStarted
         /\ video' = VideoInit
         /\ sources' = StopHeld(sources, audioSourceRef)
         /\ audioSourceRef' = NoSource
         /\ audio' = AudioInit
         /\ storyReqs' = Append(storyReqs, StoryRequest(result, file.type))
  /\ readers' = RemoveAt(readers, i)
  /\ UNCHANGED <<selectedFile, keyVars, videoTasks, aspectRatio, speechReqs, nEvents>>

\* a slip: response.text is returned as it is, without the fallback
StoryResultNoFallback(text) == text

\* generateStory's return value: response.text || fallback
StoryResult(text) == IF text = "" THEN FallbackStory ELSE text

\* the try branch of handleGenerateStory
StorySucceeded(generatedText) ==
  [text |-> generatedText, isGenerating |-> FALSE, error |-> NULL]

\* the catch branch of handleGenerateStory
StoryFailed(msg) ==
  [text |-> "", isGenerating |-> FALSE,
   error |-> Concat("Failed to generate story. ", MessageOr(msg))]

\* the awaited generateStory settles
StorySettles(i) ==
  /\ i \in 1..Len(storyReqs)
  /\ storyReqs' = RemoveAt(storyReqs, i)
  /\ \/ \E text \in StoryTexts : story' = StorySucceeded(StoryResult(text))
     \/ story' = StoryFailed(RemoteFailure)
  /\ UNCHANGED <<keyVars, fileVars, video, videoTasks, aspectRatio, audioVars, nEvents>>

\* a slip: the cached buffer is not consulted, a click while nothing plays
\* always asks for speech again
HandleReadAloudNoCache ==
  /\ IF story.text = ""
       THEN UNCHANGED audioVars
       ELSE IF audio.isPlaying
         THEN StopAudio /\ UNCHANGED speechReqs
         ELSE /\ audio' = [audio EXCEPT !.isGenerating = TRUE]
              /\ speechReqs' = Append(speechReqs, [text |-> story.text])
              /\ UNCHANGED <<audioSourceRef, sources>>
  /\ UNCHANGED <<keyVars, fileVars, storyVars, video, videoTasks, aspectRatio>>

\* handleReadAloud
HandleReadAloud ==
  /\ IF story.text = ""
       THEN UNCHANGED audioVars
       ELSE IF audio.isPlaying
         THEN StopAudio /\ UNCHANGED speechReqs
         ELSE IF audio.audioBuffer # NULL
           THEN PlayBuffer(audio) /\ UNCHANGED speechReqs
           ELSE /\ audio' = [audio EXCEPT !.isGenerating = TRUE]
                /\ speechReqs' = Append(speechReqs, [text |-> story.text])
                /\ UNCHANGED <<audioSourceRef, sources>>
  /\ UNCHANGED <<keyVars, fileVars, storyVars, video, videoTasks, aspectRatio>>

\* a click on the Read Aloud / Stop button
ClickReadAloud == ReadAloudEnabled /\ UserEvent /\ HandleReadAloud

\* what the awaited generateSpeech and decodeAudioData can come to: a payload
\* that decodes, no inline data ('No audio data returned.'), a failed request,
\* a payload decodeAudioData rejects
SpeechReplies == {"audio", "empty", "rejected", "undecodable"}

\* a slip: the catch block puts the initial audio record back, dropping the
\* cached buffer
SpeechSettlesFailureResets(i, reply) ==
  /\ i \in 1..Len(speechReqs)
  /\ reply \in SpeechReplies
  /\ speechReqs' = RemoveAt(speechReqs, i)
  /\ IF reply = "audio"
       THEN PlayBuffer([audio EXCEPT !.isGenerating = FALSE,
                                     !.audioBuffer = <<"pcm", speechReqs[i].text>>])
       ELSE /\ audio' = AudioInit
            /\ UNCHANGED <<audioSourceRef, sources>>
  /\ UNCHANGED <<keyVars, fileVars, storyVars, video, videoTasks, aspectRatio, nEvents>>

\* the awaited generateSpeech and decodeAudioData settle
SpeechSettles(i, reply) ==
  /\ i \in 1..Len(speechReqs)
  /\ reply \in SpeechReplies
  /\ speechReqs' = RemoveAt(speechReqs, i)
  /\ IF reply = "audio"
       THEN PlayBuffer([audio EXCEPT !.isGenerating = FALSE,
                                     !.audioBuffer = <<"pcm", speechReqs[i].text>>])
       ELSE /\ audio' = [audio EXCEPT !.isGenerating = FALSE, !.isPlaying = FALSE]
            /\ UNCHANGED <<audioSourceRef, sources>>
  /\ UNCHANGED <<keyVars, fileVars, storyVars, video, videoTasks, aspectRatio, nEvents>>

\* source.onended: a playing source reaches the end of its buffer, or the
\* ended event of a stopped source is delivered
SourceEnded(s) ==
  /\ s \in 1..Len(sources)
  /\ sources[s] \in {"playing", "stopped"}
  /\ sources' = [sources EXCEPT ![s] = "ended"]
  /\ audio' = [audio EXCEPT !.isPlaying = FALSE]
  /\ UNCHANGED <<audioSourceRef, speechReqs, keyVars, fileVars, storyVars,
                 video, videoTasks, aspectRatio, nEvents>>

(* ------------------------------- video --------------------------------- *)
\* what generateVideos / getVideosOperation can answer
Operations ==
  {[done |-> FALSE, uri |-> Undefined]} \cup {[done |-> TRUE, uri |-> u] : u \in VideoUris}

\* the messages the progress timer cycles through
ProgressMsgs ==
  << "Analyzing scene composition...", "Dreaming up motion vectors...",
     "Rendering frames with Veo...", "Polishing pixels...", "Almost there..." >>

\* msgs.indexOf(m): zero-based, -1 when absent
IndexOfMsg(m) ==
  IF \E i \in 1..Len(ProgressMsgs) : ProgressMsgs[i] = m
    THEN (CHOOSE i \in 1..Len(ProgressMsgs) : ProgressMsgs[i] = m) - 1
    ELSE -1

\* msgs[(currentIdx + 1) % msgs.length]
NextProgressMsg(m) == ProgressMsgs[((IndexOfMsg(m) + 1) % Len(ProgressMsgs)) + 1]

\* the updater the progress timer passes to setVideo
ProgressUpdate(prev) ==
  IF ~prev.isGenerating THEN prev
  ELSE [prev EXCEPT !.progressMessage = NextProgressMsg(prev.progressMessage)]

\* the setVideo of line 119
VideoStarted ==
  [url |-> NULL, isGenerating |-> TRUE, progressMessage |-> "Initializing Veo...",
   error |-> NULL]

\* the interval timer handleGenerateVideo creates before it calls generateVeoVideo
NewTimer == "active"

\* handleGenerateVideo from line 116 to its await of generateVeoVideo, which
\* has itself run up to its await of generateVideos
BeginVideo(img, file, ratio) ==
  /\ video' = VideoStarted
  /\ videoTasks' = Append(videoTasks,
       [pc |-> "generateVideos", data |-> StripHeader(img), mime |-> file.type,
        ratio |-> ratio, timer |-> NewTimer, polls |-> 0,
        trace |-> <<"generateVideos">>, thrown |-> Undefined])

\* handleGenerateVideo
HandleGenerateVideo ==
  IF imagePreview = NULL \/ selectedFile = NoFile
    THEN UNCHANGED <<keyVars, fileVars, storyVars, video, videoTasks, aspectRatio,
                     audioVars>>
    ELSE IF ~apiKeyReady
      THEN /\ StartKeyFlow("video", imagePreview, selectedFile, aspectRatio)
           /\ UNCHANGED <<apiKeyReady, hasKey, mountCheck, fileVars, storyVars, video,
                          videoTasks, aspectRatio, audioVars>>
      ELSE /\ BeginVideo(imagePreview, selectedFile, aspectRatio)
           /\ UNCHANGED <<keyVars, fileVars, storyVars, aspectRatio, audioVars>>

\* a click on the Generate Veo Video button
ClickGenerateVideo == GenerateButtonRendered /\ UserEvent /\ HandleGenerateVideo

\* a slip: the handler goes on whatever the fresh checkApiKey answers
RecheckSettlesIgnoresReady(k) ==
  /\ k \in 1..Len(keyFlows)
  /\ keyFlows[k].pc = "recheck"
  /\ keyFlows' = RemoveAt(keyFlows, k)
  /\ BeginVideo(keyFlows[k].img, keyFlows[k].file, keyFlows[k].ratio)
  /\ UNCHANGED <<apiKeyReady, hasKey, mountCheck, fileVars, storyVars,
                 aspectRatio, audioVars, nEvents>>

\* const ready = await checkApiKey(); if (!ready) return; of handleGenerateVideo
\* (a rejected checkApiKey ends the handler as well)
RecheckSettles(k) ==
  /\ k \in 1..Len(keyFlows)
  /\ keyFlows[k].pc = "recheck"
  /\ keyFlows' = RemoveAt(keyFlows, k)
  /\ \E ok \in BOOLEAN :
       IF ok /\ hasKey
         THEN BeginVideo(keyFlows[k].img, keyFlows[k].file, keyFlows[k].ratio)
         ELSE UNCHANGED <<video, videoTasks>>
  /\ UNCHANGED <<apiKeyReady, hasKey, mountCheck, fileVars, storyVars,
                 aspectRatio, audioVars, nEvents>>

\* the progress timer of task v fires
TimerTick(v) ==
  /\ v \in 1..Len(videoTasks)
  /\ videoTasks[v].timer = "active"
  /\ video' = ProgressUpdate(video)
  /\ UNCHANGED <<videoTasks, keyVars, fileVars, storyVars, aspectRatio, audioVars,
                 nEvents>>

\* a slip: the success path only merges the url into the previous state
VideoResolvedMergesUrl(v, task, url) ==
  /\ videoTasks' = [videoTasks EXCEPT ![v] = [task EXCEPT !.pc = "resolved",
                                                         !.timer = "cleared"]]
  /\ video' = [video EXCEPT !.url = url]

\* generateVeoVideo resolves with url: clearInterval and the success setVideo
VideoResolved(v, task, url) ==
  /\ videoTasks' = [videoTasks EXCEPT ![v] = [task EXCEPT !.pc = "resolved",
                                                         !.timer = "cleared"]]
  /\ video' = [url |-> url, isGenerating |-> FALSE, progressMessage |-> "",
               error |-> NULL]

\* a slip: the catch block only merges the error into the previous state
VideoRejectedMergesError(v, task, msg) ==
  /\ videoTasks' = [videoTasks EXCEPT ![v] = [task EXCEPT !.pc = "rejected",
                                                         !.thrown = msg]]
  /\ video' = [video EXCEPT !.isGenerating = FALSE,
                            !.error = Concat("Video generation failed. ", MessageOr(msg))]

\* a slip: no catch block, the rejection leaves the view state as it is
VideoRejectedUncaught(v, task, msg) ==
  /\ videoTasks' = [videoTasks EXCEPT ![v] = [task EXCEPT !.pc = "rejected",
                                                         !.thrown = msg]]
  /\ UNCHANGED video

\* generateVeoVideo rejects with an error of message msg: the catch block
VideoRejected(v, task, msg) ==
  /\ videoTasks' = [videoTasks EXCEPT ![v] = [task EXCEPT !.pc = "rejected",
                                                         !.thrown = msg]]
  /\ video' = [url |-> NULL, isGenerating |-> FALSE, progressMessage |-> "",
               error |-> Concat("Video generation failed. ", MessageOr(msg))]

\* a slip: the loop polls again without the 5 s wait
StartWaitNoDelay(task) ==
  [task EXCEPT !.pc = "wait", !.trace = @ \o <<"pending">>]

\* the loop body up to its await of getVideosOperation: the 5 s wait starts
StartWait(task) ==
  [task EXCEPT !.pc = "wait", !.trace = @ \o <<"pending", "setTimeout">>]

\* the statements after the loop, for a done operation with a link: the
\* download fetch is issued
StartFetch(task) ==
  [task EXCEPT !.pc = "fetch", !.trace = @ \o <<"done", "uri:link", "fetch">>]

\* generateVeoVideo from the loop test on, with the operation just received:
\* wait again, throw for a missing link, or issue the download
Observe(v, task, op) ==
  IF ~op.done
    THEN /\ videoTasks' = [videoTasks EXCEPT ![v] = StartWait(task)]
         /\ UNCHANGED video
    ELSE IF op.uri = Undefined \/ op.uri = ""
      THEN VideoRejected(v, [task EXCEPT !.trace = @ \o <<"done", "uri:none">>],
                         "No video generated in response.")
      ELSE /\ videoTasks' = [videoTasks EXCEPT ![v] = StartFetch(task)]
           /\ UNCHANGED video

\* the awaited generateVideos settles
GenerateVideosSettles(v) ==
  /\ v \in 1..Len(videoTasks)
  /\ videoTasks[v].pc = "generateVideos"
  /\ \/ \E op \in Operations : Observe(v, videoTasks[v], op)
     \/ VideoRejected(v, videoTasks[v], RemoteFailure)
  /\ UNCHANGED <<keyVars, fileVars, storyVars, aspectRatio, audioVars, nEvents>>

\* the 5 s timeout of the loop elapses and getVideosOperation is called
WaitElapses(v) ==
  /\ v \in 1..Len(videoTasks)
  /\ videoTasks[v].pc = "wait"
  /\ videoTasks' = [videoTasks EXCEPT ![v].pc = "poll", ![v].polls = @ + 1,
                                      ![v].trace = @ \o <<"getVideosOperation">>]
  /\ UNCHANGED <<video, keyVars, fileVars, storyVars, aspectRatio, audioVars, nEvents>>

\* the awaited getVideosOperation settles; the remote job is done by its
\* MaxPolls-th poll at the latest
PollSettles(v) ==
  /\ v \in 1..Len(videoTasks)
  /\ videoTasks[v].pc = "poll"
  /\ \/ \E op \in Operations :
          /\ op.done \/ videoTasks[v].polls < MaxPolls
          /\ Observe(v, videoTasks[v], op)
     \/ VideoRejected(v, videoTasks[v], RemoteFailure)
  /\ UNCHANGED <<keyVars, fileVars, storyVars, aspectRatio, audioVars, nEvents>>

\* a slip: the download goes on to blob() whatever videoResponse.ok is
FetchSettlesIgnoresOk(v) ==
  /\ v \in 1..Len(videoTasks)
  /\ videoTasks[v].pc = "fetch"
  /\ \/ /\ videoTasks' = [videoTasks EXCEPT ![v].pc = "blob",
                                            ![v].trace = @ \o <<"ok", "blob">>]
        /\ UNCHANGED video
     \/ /\ videoTasks' = [videoTasks EXCEPT ![v].pc = "blob",
                                            ![v].trace = @ \o <<"not ok", "blob">>]
        /\ UNCHANGED video
     \/ VideoRejected(v, videoTasks[v], RemoteFailure)
  /\ UNCHANGED <<keyVars, fileVars, storyVars, aspectRatio, audioVars, nEvents>>

\* the awaited fetch of the download link settles
FetchSettles(v) ==
  /\ v \in 1..Len(videoTasks)
  /\ videoTasks[v].pc = "fetch"
  /\ \/ /\ videoTasks' = [videoTasks EXCEPT ![v].pc = "blob",
                                            ![v].trace = @ \o <<"ok", "blob">>]
        /\ UNCHANGED video
     \/ VideoRejected(v, [videoTasks[v] EXCEPT !.trace = @ \o <<"not ok">>],
                      "Failed to download generated video.")
     \/ VideoRejected(v, videoTasks[v], RemoteFailure)
  /\ UNCHANGED <<keyVars, fileVars, storyVars, aspectRatio, audioVars, nEvents>>

\* the awaited videoResponse.blob() settles; URL.createObjectURL on success
BlobSettles(v) ==
  /\ v \in 1..Len(videoTasks)
  /\ videoTasks[v].pc = "blob"
  /\ \/ VideoResolved(v, [videoTasks[v] EXCEPT !.trace = @ \o <<"createObjectURL">>],
                      <<"blob:", v>>)
     \/ VideoRejected(v, videoTasks[v], RemoteFailure)
  /\ UNCHANGED <<keyVars, fileVars, storyVars, aspectRatio, audioVars, nEvents>>

(* --------------------------- specifications ---------------------------- *)
Next ==
  \/ MountCheckSettles
  \/ ClickConnect
  \/ \E k \in 1..MaxEvents : PromptSettles(k)
  \/ \E k \in 1..MaxEvents : CheckSettles(k)
  \/ \E r \in AspectRatios : SetAspectRatio(r)
  \/ \E f \in Files : SelectFile(f)
  \/ \E i \in 1..MaxEvents : ReaderLoadEnd(i)
  \/ \E i \in 1..MaxEvents : StorySettles(i)
  \/ ClickGenerateVideo
  \/ \E v \in 1..MaxEvents : TimerTick(v)
  \/ \E v \in 1..MaxEvents : GenerateVideosSettles(v)
  \/ \E v \in 1..MaxEvents : WaitElapses(v)
  \/ \E v \in 1..MaxEvents : PollSettles(v)
  \/ \E v \in 1..MaxEvents : FetchSettles(v)
  \/ \E v \in 1..MaxEvents : BlobSettles(v)
  \/ ClickReadAloud
  \/ \E i \in 1..MaxEvents, reply \in SpeechReplies : SpeechSettles(i, reply)
  \/ \E s \in 1..MaxEvents : SourceEnded(s)

Spec == Init /\ [][Next]_vars

\* a step of the generateVeoVideo call of task v: an awaited promise settles
\* or the loop's timeout elapses
VideoProgress(v) ==
  \/ GenerateVideosSettles(v)
  \/ WaitElapses(v)
  \/ PollSettles(v)
  \/ FetchSettles(v)
  \/ BlobSettles(v)

\* the key gate, the ratio toggle and the upload: what every part builds on
NextShell ==
  \/ MountCheckSettles
  \/ ClickConnect
  \/ \E k \in 1..MaxEvents : PromptSettles(k)
  \/ \E k \in 1..MaxEvents : CheckSettles(k)
  \/ \E r \in AspectRatios : SetAspectRatio(r)
  \/ \E f \in Files : SelectFile(f)
  \/ \E i \in 1..MaxEvents : ReaderLoadEnd(i)

\* the application without its video part (no action left out reads or writes
\* story, storyReqs or the audio state), every generateStory call settling
NextStory ==
  \/ NextShell
  \/ \E i \in 1..MaxEvents : StorySettles(i)
  \/ ClickReadAloud
  \/ \E i \in 1..MaxEvents, reply \in SpeechReplies : SpeechSettles(i, reply)
  \/ \E s \in 1..MaxEvents : SourceEnded(s)

FairStorySpec ==
  Init /\ [][NextStory]_vars /\ WF_vars(\E i \in 1..MaxEvents : StorySettles(i))

\* the application without its story replies and audio part (no action left
\* out reads or writes video or videoTasks), every remote call of
\* generateVeoVideo settling and every timeout of its loop elapsing
NextVideo ==
  \/ NextShell
  \/ ClickGenerateVideo
  \/ \E v \in 1..MaxEvents : TimerTick(v)
  \/ \E v \in 1..MaxEvents : VideoProgress(v)

FairVideoSpec ==
  Init /\ [][NextVideo]_vars /\ WF_vars(\E v \in 1..MaxEvents : VideoProgress(v))

\* handleGenerateVideo on its own: the handler is invoked with whatever its
\* closure holds (image, file, key flag, ratio), and its key gate runs through
\* handleApiKeySelect and the fresh checkApiKey
GateInit ==
  /\ apiKeyReady \in BOOLEAN
  /\ selectedFile \in Files \cup {NoFile}
  /\ imagePreview \in {NULL} \cup {ReadAsDataURL(f) : f \in Files}
  /\ story = StoryInit
  /\ video = VideoInit
  /\ audio = AudioInit
  /\ aspectRatio \in AspectRatios
  /\ audioSourceRef = NoSource
  /\ hasKey \in BOOLEAN
  /\ mountCheck = "settled"
  /\ keyFlows = <<>>
  /\ readers = <<>>
  /\ storyReqs = <<>>
  /\ videoTasks = <<>>
  /\ speechReqs = <<>>
  /\ sources = <<>>
  /\ nEvents = 0

\* a call of handleGenerateVideo
InvokeGenerateVideo == UserEvent /\ HandleGenerateVideo

GateNext ==
  \/ InvokeGenerateVideo
  \/ \E k \in 1..MaxEvents : PromptSettles(k)
  \/ \E k \in 1..MaxEvents : CheckSettles(k)
  \/ \E k \in 1..MaxEvents : RecheckSettles(k)

GateSpec == GateInit /\ [][GateNext]_vars

(* ------------------------------- claims -------------------------------- *)
Tasks == 1..Len(videoTasks)
Settled(task) == task.pc \in {"resolved", "rejected"}
Has(trace, e) == \E i \in 1..Len(trace) : trace[i] = e

\* C1: in every reachable state it is never the case that video.isGenerating
\* is true and video.url is non-null at the same time
C1_NotGeneratingAndReady == ~(video.isGenerating /\ video.url # NULL)

\* a video is ready on screen while another generation is still in flight
C1_Witness ==
  /\ video.url # NULL
  /\ \E v \in Tasks : ~Settled(videoTasks[v])

\* C2: at most one AudioBufferSourceNode started by playBuffer has been started
\* and has neither ended nor been stopped
C2_AtMostOnePlaying == Cardinality({s \in 1..Len(sources) : sources[s] = "playing"}) <= 1

\* C7: at most one progress-message interval timer created by
\* handleGenerateVideo is active (created and not yet cleared)
C7_SingleTimer == Cardinality({v \in Tasks : videoTasks[v].timer = "active"}) <= 1

\* what C4 says of one call's trace
PollingOrder(trace) ==
  /\ \A i \in 1..Len(trace) :
       trace[i] \in {"uri:link", "uri:none", "fetch"}
         => \E j \in 1..(i-1) : trace[j] = "done"
  /\ \A i \in 1..Len(trace) :
       trace[i] = "getVideosOperation"
         => i > 2 /\ trace[i-1] = "setTimeout" /\ trace[i-2] = "pending"
  /\ \A i, j \in 1..Len(trace) :
       i < j /\ trace[i] = "done" => trace[j] # "getVideosOperation"

\* C4: in generateVeoVideo the video URI is read and the download fetch is
\* issued only after an operation with done = true has been observed; while
\* the latest observed operation is not done, each further getVideosOperation
\* poll is preceded by a wait; no poll is issued after done = true has been
\* observed (zero polls if generateVideos already returned a done operation)
C4_PollingLoop ==
  \A v \in Tasks :
    /\ PollingOrder(videoTasks[v].trace)
    /\ videoTasks[v].polls =
         Cardinality({i \in 1..Len(videoTasks[v].trace) :
                        videoTasks[v].trace[i] = "getVideosOperation"})
    /\ videoTasks[v].pc = "wait" =>
         videoTasks[v].trace[Len(videoTasks[v].trace) - 1] = "pending"

\* a call that polled MaxPolls times before it saw the job done and went on
\* to the download
C4_Witness ==
  \E v \in Tasks :
    /\ videoTasks[v].polls = MaxPolls
    /\ MaxPolls >= 2
    /\ videoTasks[v].pc = "fetch"

\* C10: generateVeoVideo returns an object URL only if the done operation
\* contains a video URI and the download response is ok; with no URI it throws
\* 'No video generated in response.' without issuing any download fetch; with
\* a response that is not ok it throws 'Failed to download generated video.'
\* without creating an object URL
C10_DownloadOutcome ==
  \A v \in Tasks :
    LET t == videoTasks[v] IN
      /\ t.pc = "resolved" =>
           /\ Has(t.trace, "uri:link") /\ Has(t.trace, "ok")
           /\ Has(t.trace, "createObjectURL")
      /\ Has(t.trace, "uri:none") =>
           /\ t.pc = "rejected" /\ t.thrown = "No video generated in response."
           /\ ~Has(t.trace, "fetch")
      /\ Has(t.trace, "not ok") =>
           /\ t.pc = "rejected" /\ t.thrown = "Failed to download generated video."
           /\ ~Has(t.trace, "createObjectURL")
      /\ Has(t.trace, "createObjectURL") => t.pc = "resolved"

\* one call failed for a missing URI, another for a download that was not ok
C10_Witness ==
  /\ \E v \in Tasks : videoTasks[v].thrown = "No video generated in response."
  /\ \E v \in Tasks : videoTasks[v].thrown = "Failed to download generated video."

\* an upload's onloadend step: a pending reader goes away
UploadCompletes == Len(readers') < Len(readers)

\* what C3 says of one step
C3_Step ==
  UploadCompletes =>
    /\ nEvents' = nEvents
    /\ \E i \in 1..Len(readers) :
         /\ readers' = RemoveAt(readers, i)
         /\ storyReqs' = Append(storyReqs, [data |-> readers[i].b64,
                                            mime |-> readers[i].type])

\* C3: every image upload whose file read completes issues exactly one
\* generateStory request carrying that image's base64 data and that file's
\* MIME type, without any further user action; and provided the request
\* settles, story.isGenerating eventually becomes false with either a story
\* text or a story error set
C3_StoryOnUpload ==
  /\ [][C3_Step]_vars
  /\ (storyReqs # <<>>) ~>
       (~story.isGenerating /\ (story.text # "" \/ story.error # NULL))

\* one request has failed while the request of a later upload is in flight
C3_Witness == story.error # NULL /\ storyReqs # <<>>

\* the loop of generateVeoVideo is left only for a done operation or for a
\* rejected poll, and a wait always ends in a poll
C5_LoopExit ==
  \A v \in Tasks :
    /\ videoTasks[v].pc = "wait" => videoTasks'[v].pc \in {"wait", "poll"}
    /\ videoTasks[v].pc = "poll" /\ videoTasks'[v].pc \notin {"poll", "wait"} =>
         \/ Has(videoTasks'[v].trace, "done")
         \/ videoTasks'[v].pc = "rejected" /\ videoTasks'[v].thrown = RemoteFailure

\* C5: assuming every remote call settles and the remote operation eventually
\* reports done, every video generation started by handleGenerateVideo
\* eventually settles (URL or error) and the state eventually reaches
\* video.isGenerating = false; the loop has no poll cap or timeout
C5_Termination ==
  /\ \A v \in 1..MaxEvents :
       (v <= Len(videoTasks)) ~> (v <= Len(videoTasks) /\ Settled(videoTasks[v]))
  /\ video.isGenerating ~> ~video.isGenerating
  /\ [][C5_LoopExit]_vars

\* a generation that polled has settled and nothing is generating
C5_Witness ==
  /\ ~video.isGenerating
  /\ \E v \in Tasks : Settled(videoTasks[v]) /\ videoTasks[v].polls >= 1

\* what C6 says of one step
C6_Step ==
  /\ Len(videoTasks') > Len(videoTasks) => ClickGenerateVideo
  /\ Len(speechReqs') > Len(speechReqs) => ClickReadAloud
  /\ readers' # readers =>
       /\ Len(videoTasks') = Len(videoTasks)
       /\ Len(speechReqs') = Len(speechReqs)
  /\ UploadCompletes => Len(storyReqs') = Len(storyReqs) + 1

\* C6: a generateVeoVideo request is issued only as a direct result of a
\* Generate-video click and a generateSpeech request only as a direct result
\* of a Read Aloud click; an image upload by itself issues a story request
\* and never a video or speech request
C6_OptionalSteps == [][C6_Step]_vars

\* after an upload, a video request and a speech request have both been issued
C6_Witness == imagePreview # NULL /\ Len(videoTasks) > 0 /\ audio.audioBuffer # NULL

\* what C8 says of one step
C8_Step ==
  UploadCompletes =>
    /\ story' = [text |-> "", isGenerating |-> TRUE, error |-> NULL]
    /\ video' = [url |-> NULL, isGenerating |-> FALSE, progressMessage |-> "",
                 error |-> NULL]
    /\ audio' = [isPlaying |-> FALSE, isGenerating |-> FALSE, audioBuffer |-> NULL]
    /\ audioSourceRef # NoSource => sources'[audioSourceRef] # "playing"
    /\ audioSourceRef' = NoSource
    /\ aspectRatio' = aspectRatio
    /\ apiKeyReady' = apiKeyReady

\* C8: when an uploaded image finishes loading the view state is reset in one
\* step: story {text '', error null}, video {url null, isGenerating false,
\* progressMessage '', error null}, audio {isPlaying false, isGenerating
\* false, audioBuffer null}, the source held in audioSourceRef stopped and the
\* ref cleared, the new story generation marked in progress; aspectRatio and
\* apiKeyReady unchanged
C8_ResetOnUpload == [][C8_Step]_vars

\* the second upload of a run has just reset a state in which a source was
\* playing: three user events (upload, Read Aloud, upload), the source stopped
\* and no cached buffer left
C8_Witness ==
  /\ nEvents = 3
  /\ story = StoryStarted /\ audio = AudioInit /\ video = VideoInit
  /\ \E s \in 1..Len(sources) : sources[s] = "stopped"

\* what C9 says of the step in which call v settles
C9_Step ==
  \A v \in Tasks :
    ~Settled(videoTasks[v]) /\ Settled(videoTasks'[v]) =>
      IF videoTasks'[v].pc = "rejected"
        THEN /\ video'.url = NULL /\ ~video'.isGenerating
             /\ video'.progressMessage = "" /\ video'.error # NULL
        ELSE video' = [url |-> <<"blob:", v>>, isGenerating |-> FALSE,
                       progressMessage |-> "", error |-> NULL]

\* C9: if generateVeoVideo rejects the video state is set to url null,
\* isGenerating false, progressMessage '' and a non-null error; if it resolves
\* it is set to the returned url, isGenerating false, progressMessage '' and
\* error null; so in every reachable state video.error non-null implies
\* video.url is null and video.isGenerating is false
C9_VideoOutcome ==
  /\ [][C9_Step]_vars
  /\ [](video.error # NULL => video.url = NULL /\ ~video.isGenerating)

\* a generation failed after an earlier one, made stale by an upload, resolved
C9_Witness ==
  /\ video.error # NULL
  /\ \E v \in Tasks : videoTasks[v].pc = "resolved"

\* a generateStory call settles: a pending request goes away
StoryRequestSettles == Len(storyReqs') < Len(storyReqs)

\* what C11 says of every state
C11_State ==
  /\ ~(story.text # "" /\ story.error # NULL)
  /\ story.isGenerating => story.text = "" /\ story.error = NULL

\* what C11 says of the step in which a request settles: a text and no error
\* (success) or no text and an error (failure)
C11_Step ==
  StoryRequestSettles =>
    /\ ~story'.isGenerating
    /\ \/ story'.text # "" /\ story'.error = NULL
       \/ story'.text = "" /\ story'.error # NULL

\* C11: over every sequence of uploads and story-request completions
\* (overlapping requests included) story.text non-empty and story.error
\* non-null never hold together, and whenever story.isGenerating is true
\* story.text is '' and story.error is null; a successful request always
\* yields a non-empty text (the fallback sentence when the model returns empty
\* text) and a failed request yields text '' with a non-null error
C11_StoryInvariant == [](C11_State) /\ [][C11_Step]_vars

\* the request of an earlier upload came back empty and the fallback sentence
\* is shown while the request of a later upload is still in flight
C11_Witness == story.text = FallbackStory /\ storyReqs # <<>>

\* a step that issues a generateVeoVideo request (and creates its timer)
VideoRequestIssued == Len(videoTasks') > Len(videoTasks)

\* the fresh checkApiKey of the k-th key flow settles
RecheckStep(k) ==
  /\ k \in 1..Len(keyFlows)
  /\ keyFlows[k].pc = "recheck"
  /\ keyFlows' = RemoveAt(keyFlows, k)

\* what C12 says of one step
C12_Step ==
  /\ VideoRequestIssued =>
        \/ /\ nEvents' = nEvents + 1
           /\ apiKeyReady /\ imagePreview # NULL /\ selectedFile # NoFile
        \/ /\ nEvents' = nEvents
           /\ hasKey
           /\ \E k \in 1..Len(keyFlows) : RecheckStep(k) /\ keyFlows[k].caller = "video"
  /\ nEvents' = nEvents + 1 /\ (imagePreview = NULL \/ selectedFile = NoFile) =>
        UNCHANGED <<video, videoTasks, keyFlows>>
  /\ nEvents' = nEvents + 1 /\ ~apiKeyReady => UNCHANGED <<video, videoTasks>>
  /\ (\E k \in 1..Len(keyFlows) : RecheckStep(k)) /\ ~hasKey =>
        UNCHANGED <<video, videoTasks>>

\* C12: handleGenerateVideo calls generateVeoVideo only if apiKeyReady was
\* true when the handler ran or, after prompting for a key, a fresh
\* checkApiKey returned true; if the image or file is missing, or that fresh
\* check returns false, the handler returns with the video state unchanged, no
\* progress timer created and no remote video request issued
C12_KeyGate == [][C12_Step]_vars

\* with apiKeyReady still false a generation was started past the gate, and
\* another call of the handler has returned without starting one
C12_Witness ==
  /\ ~apiKeyReady
  /\ Len(videoTasks) > 0
  /\ keyFlows = <<>>
  /\ nEvents > Len(videoTasks)

\* a step that issues a generateSpeech request
SpeechRequestIssued == Len(speechReqs') > Len(speechReqs)

\* a click on the Read Aloud / Stop button: the one user event that touches
\* the audio state, the held source or the speech requests
ReadAloudClicked == nEvents' = nEvents + 1 /\ audioVars' # audioVars

\* what C13 says of one step
C13_Step ==
  /\ SpeechRequestIssued =>
        /\ ReadAloudClicked
        /\ story.text # "" /\ ~audio.isPlaying /\ audio.audioBuffer = NULL
        /\ speechReqs' = Append(speechReqs, [text |-> story.text])
        /\ sources' = sources
  /\ ReadAloudClicked /\ audio.isPlaying =>
        /\ speechReqs' = speechReqs
        /\ Len(sources') = Len(sources)
        /\ audioSourceRef # NoSource => sources'[audioSourceRef] # "playing"
        /\ audioSourceRef' = NoSource
        /\ audio' = [audio EXCEPT !.isPlaying = FALSE]
  /\ ReadAloudClicked /\ ~audio.isPlaying /\ audio.audioBuffer # NULL =>
        /\ speechReqs' = speechReqs
        /\ sources' = Append(sources, "playing")
        /\ audioSourceRef' = Len(sources')
        /\ audio' = [audio EXCEPT !.isPlaying = TRUE]

\* C13: a Read Aloud click issues a generateSpeech request only when
\* story.text is non-empty, audio.isPlaying is false and audio.audioBuffer is
\* null; a click while audio.isPlaying is true only stops playback (no
\* request, no new source), and a click with a cached buffer and isPlaying
\* false replays the cached buffer without a new request
C13_ReadAloudPrecondition == [][C13_Step]_vars

\* after one upload the first click fetched the speech, its source played to
\* the end, and the second click replayed the cached buffer: two sources from
\* three user events and a single request
C13_Witness ==
  /\ nEvents = 3
  /\ Len(sources) = 2 /\ sources[2] = "playing"
  /\ audio.isPlaying /\ audio.audioBuffer # NULL
  /\ speechReqs = <<>>

\* a Read Aloud request ends in the catch block: generateSpeech rejects, it
\* throws 'No audio data returned.', or decodeAudioData rejects
SpeechFails ==
  \E i \in 1..Len(speechReqs), reply \in SpeechReplies \ {"audio"} :
    SpeechSettles(i, reply)

\* what C14 says of one step
C14_Step ==
  SpeechFails \/ (Len(speechReqs') < Len(speechReqs) /\ Len(sources') = Len(sources)) =>
    /\ ~audio'.isGenerating /\ ~audio'.isPlaying
    /\ audio'.audioBuffer = audio.audioBuffer
    /\ sources' = sources /\ audioSourceRef' = audioSourceRef
    /\ story' = story /\ storyReqs' = storyReqs
    /\ video' = video /\ videoTasks' = videoTasks

\* C14: if generateSpeech rejects (the 'No audio data returned.' case
\* included) or decoding fails, audio.isGenerating and audio.isPlaying are set
\* to false, audio.audioBuffer is left unchanged, no audio source is started,
\* and story and video state are unchanged
C14_SpeechFailure == [][C14_Step]_vars

\* a request made stale by a second upload has failed after the request of
\* that upload succeeded: the cached buffer is kept, isPlaying is false, and
\* the one source there is goes on playing
C14_Witness ==
  /\ nEvents = 4
  /\ speechReqs = <<>>
  /\ audio.audioBuffer # NULL /\ ~audio.isPlaying /\ ~audio.isGenerating
  /\ Len(sources) = 1 /\ sources[1] = "playing"

====
